---------------------------- MODULE Spec2Model ----------------------------
(***************************************************************************)
(* The incremental JPEG decode driver JPEGRsImageDecoder                   *)
(* (samples/chromium_integration/jpeg_image_decoder.{h,cc}).               *)
(*                                                                         *)
(* One session is modelled: the fields of the decoder object, the part of  *)
(* the host (blink::ImageDecoder) the driver reads and writes, the decode  *)
(* engine behind the CXX bridge, and a record of what the latest call did. *)
(* A byte of the input is named by its position in the stream (1, 2, ...), *)
(* so a slice of the input is the pair (from, len) and the pixel buffer is *)
(* the sequence of stream positions the engine decoded into it.            *)
(***************************************************************************)
EXTENDS Integers, Sequences, FiniteSets, TLC

\* Largest number of input bytes the host delivers to a session.
MaxData == 2
\* Largest number of bytes one SetData call adds.
MaxChunk == 2
\* Largest frame index the host passes to Decode(index).
MaxIndex == 1
\* The valid stream of the reference engine: HdrLen header bytes followed by
\* BodyLen bytes of scan data.
HdrLen == 1
BodyLen == 2
\* The longest reader handed to signature detection.
MaxWindow == 4
\* sizeof(buffer) in MatchesJPEGSignature.
SignatureLen == 4

VARIABLES
  \* ---- host (blink::ImageDecoder) ----
  data_size,            \* reader.size(): bytes accumulated in data_
  all_received,         \* IsAllDataReceived()
  failed,               \* Failed(), set by SetFailed()
  size_available,       \* IsDecodedSizeAvailable(), set by an accepted SetSize
  embedded_profile,     \* whether SetEmbeddedColorProfile was called
  frame_cache_size,     \* frame_buffer_cache_.size()
  frame_status,         \* frame_buffer_cache_[0].GetStatus()
  frame_bound,          \* InitFrameBuffer(0) has bound pixel memory
  pixels_changed,       \* SetPixelsChanged(true) was called
  frame_pixels,         \* what the engine decoded into the frame's pixel memory
  \* ---- JPEGRsImageDecoder ----
  decoder_present,      \* decoder_.has_value()
  decoder_state,        \* decoder_state_
  basic_info,           \* basic_info_
  have_metadata,        \* have_metadata_
  is_high_bit_depth,    \* is_high_bit_depth_
  input_offset,         \* input_offset_
  \* ---- engine (JpegRsDecoder) ----
  eng,
  \* ---- observation ----
  crashed,              \* the process was terminated inside a call
  call,                 \* the latest call: its kind, the state it started in, its events
  \* ---- signature detection ----
  sig_window,           \* the bytes of the reader handed to MatchesJPEGSignature
  sig_result            \* whether it was called, and what its latest call returned

vars == <<data_size, all_received, failed, size_available, embedded_profile,
          frame_cache_size, frame_status, frame_bound,
          pixels_changed, frame_pixels, decoder_present, decoder_state,
          basic_info, have_metadata, is_high_bit_depth, input_offset, eng,
          crashed, call, sig_window, sig_result>>

DecoderState == {"kInitial", "kHaveBasicInfo", "kDecoding", "kComplete", "kError"}

JpegRsStatus == {"Success", "NeedMoreInput", "Error"}

\* The value of `basic_info_ = {}` in the constructor.
EmptyBasicInfo == [width |-> 0, height |-> 0, bits_per_sample |-> 0]

\* Headers an engine may report; the second one is a 12-bit image.
BasicInfos ==
  { [width |-> 16, height |-> 16, bits_per_sample |-> 8],
    [width |-> 32, height |-> 8, bits_per_sample |-> 12] }

\* The header of the valid stream.
ValidInfo == [width |-> 16, height |-> 16, bits_per_sample |-> 8]

\* The stream positions off+1 .. off+n.
Bytes(off, n) == [i \in 1..n |-> off + i]

-----------------------------------------------------------------------------
(* The engine. Kind "any" is the engine of the bridge contract: any status, *)
(* any bytes_consumed between 0 and the bytes offered. Kind "valid" is a    *)
(* streaming engine fed the valid stream: it takes HdrLen header bytes,     *)
(* then BodyLen bytes of scan data, and asks for more while it is short.    *)
(* Kind "buffering" is fed the same stream and takes the scan data as it    *)
(* comes, but finishes the image only when told that all input is there.   *)

NewEngine(kind) == [kind |-> kind, hdr |-> 0, pix |-> 0, fmt |-> "none"]

parse_headers(e, sl, all_input) ==
  IF e.kind = "any"
  THEN { [status |-> st, bytes_consumed |-> c, eng |-> e] :
           st \in JpegRsStatus, c \in 0..sl.len }
  ELSE LET need == HdrLen - e.hdr IN
       IF sl.len >= need
       THEN { [status |-> "Success", bytes_consumed |-> need,
               eng |-> [e EXCEPT !.hdr = HdrLen]] }
       ELSE IF all_input
       THEN { [status |-> "Error", bytes_consumed |-> 0, eng |-> e] }
       ELSE { [status |-> "NeedMoreInput", bytes_consumed |-> c,
               eng |-> [e EXCEPT !.hdr = @ + c]] : c \in {0, sl.len} }

get_basic_info(e) == IF e.kind = "any" THEN BasicInfos ELSE {ValidInfo}

set_pixel_format(e, fmt) == [e EXCEPT !.fmt = fmt]

\* The profile bytes: "valid" for bytes ColorProfile::Create makes a profile
\* of, "empty" for no bytes or bytes it makes none of.
get_icc_profile(e) ==
  IF e.kind = "any" THEN {"empty", "valid"} ELSE {"empty"}

decode_image_with_stride(e, sl, all_input) ==
  IF e.kind = "any"
  THEN { [status |-> st, bytes_consumed |-> c, eng |-> e] :
           st \in JpegRsStatus, c \in 0..sl.len }
  ELSE IF e.kind = "buffering"
  THEN LET need == BodyLen - e.pix
           c    == IF sl.len < need THEN sl.len ELSE need
       IN  IF ~all_input
           THEN { [status |-> "NeedMoreInput", bytes_consumed |-> c,
                   eng |-> [e EXCEPT !.pix = @ + c]] }
           ELSE IF sl.len >= need
           THEN { [status |-> "Success", bytes_consumed |-> need,
                   eng |-> [e EXCEPT !.pix = BodyLen]] }
           ELSE { [status |-> "Error", bytes_consumed |-> 0, eng |-> e] }
  ELSE LET need == BodyLen - e.pix IN
       IF sl.len >= need
       THEN { [status |-> "Success", bytes_consumed |-> need,
               eng |-> [e EXCEPT !.pix = BodyLen]] }
       ELSE IF all_input
       THEN { [status |-> "Error", bytes_consumed |-> 0, eng |-> e] }
       ELSE { [status |-> "NeedMoreInput", bytes_consumed |-> c,
               eng |-> [e EXCEPT !.pix = @ + c]] : c \in {0, sl.len} }

\* jpeg_rs_signature_check: the bytes start with the SOI marker FF D8 and the
\* first byte FF of the next marker.
jpeg_rs_signature_check(bytes) ==
  /\ Len(bytes) >= 3
  /\ bytes[1] = 255
  /\ bytes[2] = 216
  /\ bytes[3] = 255

-----------------------------------------------------------------------------
(* The session as one record, so that the steps of Decode are functions of *)
(* it. `events` collects what the call in progress has done.               *)

Cur ==
  [ failed |-> failed, size_available |-> size_available,
    embedded_profile |-> embedded_profile,
    frame_cache_size |-> frame_cache_size, frame_status |-> frame_status,
    frame_bound |-> frame_bound, pixels_changed |-> pixels_changed,
    frame_pixels |-> frame_pixels, decoder_present |-> decoder_present,
    decoder_state |-> decoder_state, basic_info |-> basic_info,
    have_metadata |-> have_metadata, is_high_bit_depth |-> is_high_bit_depth,
    input_offset |-> input_offset, eng |-> eng, crashed |-> crashed,
    events |-> <<>> ]

Commit(s) ==
  /\ failed' = s.failed
  /\ size_available' = s.size_available
  /\ embedded_profile' = s.embedded_profile
  /\ frame_cache_size' = s.frame_cache_size
  /\ frame_status' = s.frame_status
  /\ frame_bound' = s.frame_bound
  /\ pixels_changed' = s.pixels_changed
  /\ frame_pixels' = s.frame_pixels
  /\ decoder_present' = s.decoder_present
  /\ decoder_state' = s.decoder_state
  /\ basic_info' = s.basic_info
  /\ have_metadata' = s.have_metadata
  /\ is_high_bit_depth' = s.is_high_bit_depth
  /\ input_offset' = s.input_offset
  /\ eng' = s.eng
  /\ crashed' = s.crashed

Log(s, ev) == [s EXCEPT !.events = Append(@, ev)]

EngineCall(fn, sl, all_input, r) ==
  [fn |-> fn, from |-> sl.from, len |-> sl.len, all_input |-> all_input,
   status |-> r.status, bytes_consumed |-> r.bytes_consumed]

\* Mutant: a failure also moves the state to kError.
SetFailedEntersError(s) ==
  [s EXCEPT !.failed = TRUE, !.decoder_state = "kError"]

\* ImageDecoder::SetFailed().
SetFailed(s) == [s EXCEPT !.failed = TRUE]

\* Mutant: the Failed() check at the top of Decode is missing.
IsFailedNever(s) == FALSE

\* `if (Failed()) return;`
IsFailed(s) == s.failed

\* Mutant: the early exit of a size-only request is missing.
SizeAlreadyDecodedNever(s, only_size) == FALSE

\* `if (only_size && IsDecodedSizeAvailable() && have_metadata_) return;`
SizeAlreadyDecoded(s, only_size) ==
  only_size /\ s.size_available /\ s.have_metadata

\* `if (!only_size && index < frame_buffer_cache_.size())`: frame already complete.
FrameAlreadyComplete(s, index, only_size) ==
  ~only_size /\ index < s.frame_cache_size /\ s.frame_status = "Complete"

EarlyReturn(s, index, only_size) ==
  \/ IsFailed(s)
  \/ SizeAlreadyDecoded(s, only_size)
  \/ FrameAlreadyComplete(s, index, only_size)

\* Mutant: the engine is created anew on every call.
DecoderMissingAlways(s) == TRUE

\* `if (!decoder_.has_value())`
DecoderMissing(s) == ~s.decoder_present

\* Mutant: a second engine is created for the pixel decode.
CreateDecoderForPixels(s) ==
  IF DecoderMissing(s) \/ s.decoder_state = "kHaveBasicInfo"
  THEN [s EXCEPT !.decoder_present = TRUE, !.decoder_state = "kInitial",
                 !.input_offset = 0, !.eng = NewEngine(s.eng.kind)]
  ELSE s

\* "Create decoder if needed": the engine is created, state and cursor reset.
CreateDecoder(s) ==
  IF DecoderMissing(s)
  THEN [s EXCEPT !.decoder_present = TRUE, !.decoder_state = "kInitial",
                 !.input_offset = 0, !.eng = NewEngine(s.eng.kind)]
  ELSE s

\* `remaining = data_size - input_offset_` in size_t: with input_offset_ beyond
\* data_size the difference wraps to 2^64 - (input_offset_ - data_size), and
\* data_buffer.resize(remaining) ends the process.
Wrapped(s, size) == s.input_offset > size

\* `input_slice`: the bytes from input_offset_ to the end of the data, taken
\* once, before the switch.
InputSlice(s, size) ==
  [from |-> s.input_offset, len |-> size - s.input_offset]

\* Mutant: the bytes consumed are added twice.
AddConsumedTwice(s, r) ==
  [s EXCEPT !.input_offset = @ + r.bytes_consumed + r.bytes_consumed]

\* `input_offset_ += result.bytes_consumed;`
AddConsumed(s, r) == [s EXCEPT !.input_offset = @ + r.bytes_consumed]

\* The slice handed to decode_image_with_stride: `input_slice`, as it was
\* taken at the start of the call.
PixelInput(s, sl) == sl

\* Mutant: NeedMoreInput from the pixel decode ends the decode.
DecodeResultCompletesEarly(s, sl, all_input, r) ==
  LET s1 == Log([s EXCEPT !.eng = r.eng,
                          !.frame_pixels = @ \o Bytes(sl.from, r.bytes_consumed)],
                EngineCall("decode_image_with_stride", sl, all_input, r))
  IN  IF r.status = "Error" THEN SetFailed(s1)
      ELSE [AddConsumed(s1, r) EXCEPT !.pixels_changed = TRUE,
                                      !.frame_status = "Complete",
                                      !.decoder_state = "kComplete"]

\* Mutant: a successful pixel decode does not mark the frame complete.
DecodeResultKeepsFrameIncomplete(s, sl, all_input, r) ==
  LET s1 == Log([s EXCEPT !.eng = r.eng,
                          !.frame_pixels = @ \o Bytes(sl.from, r.bytes_consumed)],
                EngineCall("decode_image_with_stride", sl, all_input, r))
  IN  IF r.status = "Error" THEN SetFailed(s1)
      ELSE IF r.status = "NeedMoreInput"
      THEN [AddConsumed(s1, r) EXCEPT !.pixels_changed = TRUE]
      ELSE [AddConsumed(s1, r) EXCEPT !.pixels_changed = TRUE,
                                      !.decoder_state = "kComplete"]

\* What decode_image_with_stride's result does to the session.
DecodeResult(s, sl, all_input, r) ==
  LET s1 == Log([s EXCEPT !.eng = r.eng,
                          !.frame_pixels = @ \o Bytes(sl.from, r.bytes_consumed)],
                EngineCall("decode_image_with_stride", sl, all_input, r))
  IN  IF r.status = "Error" THEN SetFailed(s1)
      ELSE IF r.status = "NeedMoreInput"
      THEN [AddConsumed(s1, r) EXCEPT !.pixels_changed = TRUE]
      ELSE [AddConsumed(s1, r) EXCEPT !.pixels_changed = TRUE,
                                      !.frame_status = "Complete",
                                      !.decoder_state = "kComplete"]

\* The host's answers to InitFrameBuffer(0) and bitmap.getPixels(): memory
\* bound, initialisation refused, or a frame without pixel memory.
FrameBufferAnswers == {"ok", "init_failed", "null_pixels"}

\* Mutant: the check of the pixel pointer is missing.
BindFrameNoNullCheck(s, sl, all_input, a) ==
  IF a = "init_failed"
  THEN { SetFailed(Log(s, [fn |-> "InitFrameBuffer", answer |-> a])) }
  ELSE LET s2 == Log([s EXCEPT !.frame_bound = TRUE],
                     [fn |-> "InitFrameBuffer", answer |-> a])
       IN  { DecodeResult(s2, sl, all_input, r) :
               r \in decode_image_with_stride(s2.eng, sl, all_input) }

\* From InitFrameBuffer(0) to the engine's pixel decode, for the host's answer a:
\* `if (!InitFrameBuffer(0))` and `if (!frame_pixels)` fail the decode and
\* return; otherwise the engine decodes into the frame's memory.
BindFrame(s, sl, all_input, a) ==
  IF a = "init_failed"
  THEN { SetFailed(Log(s, [fn |-> "InitFrameBuffer", answer |-> a])) }
  ELSE IF a = "null_pixels"
  THEN { SetFailed(Log(s, [fn |-> "InitFrameBuffer", answer |-> a])) }
  ELSE LET s2 == Log([s EXCEPT !.frame_bound = TRUE],
                     [fn |-> "InitFrameBuffer", answer |-> a])
           in == PixelInput(s2, sl)
       IN  { DecodeResult(s2, in, all_input, r) :
               r \in decode_image_with_stride(s2.eng, in, all_input) }

\* case DecoderState::kHaveBasicInfo.
HaveBasicInfoCase(s, sl, all_input) ==
  LET s1 == [s EXCEPT !.frame_cache_size = IF @ = 0 THEN 1 ELSE @]
  IN  UNION { BindFrame(s1, sl, all_input, a) : a \in FrameBufferAnswers }

\* The host's answers to SetSize(width, height): accepted (the size becomes
\* available), rejected, or rejected with the decode marked failed by the
\* host itself. The size of the valid stream is one the host accepts.
SetSizeAnswers(s) ==
  IF s.eng.kind = "any" THEN {"accept", "reject", "reject_failed"}
  ELSE {"accept"}

\* The host's answer to IgnoresColorSpace().
IgnoresColorSpace == BOOLEAN

\* The ICC block: nothing when the host ignores colour spaces or the profile
\* is empty or unusable.
ExtractProfile(s) ==
  LET fetch(ignores) ==
        IF ignores THEN {s}
        ELSE { Log([s EXCEPT !.embedded_profile =
                               IF icc = "valid" THEN TRUE ELSE @],
                   [fn |-> "get_icc_profile"]) :
                 icc \in get_icc_profile(s.eng) }
  IN  UNION { fetch(ignores) : ignores \in IgnoresColorSpace }

\* After a successful parse_headers: from SetSize to the end of the case.
ExtractMetadata(s, sl, all_input, only_size) ==
  LET accepted ==
        LET s1 == Log([s EXCEPT !.size_available = TRUE],
                      [fn |-> "SetSize", ok |-> TRUE])
            s2 == [s1 EXCEPT !.is_high_bit_depth =
                               IF s.basic_info.bits_per_sample > 8 THEN TRUE ELSE @]
            s3 == Log([s2 EXCEPT !.eng = set_pixel_format(@, "Bgra8")],
                      [fn |-> "set_pixel_format"])
        IN  { [s4 EXCEPT !.have_metadata = TRUE,
                         !.decoder_state = "kHaveBasicInfo"] :
                s4 \in ExtractProfile(s3) }
      answer(a) ==
        IF a = "reject" THEN { Log(s, [fn |-> "SetSize", ok |-> FALSE]) }
        ELSE IF a = "reject_failed"
        THEN { SetFailed(Log(s, [fn |-> "SetSize", ok |-> FALSE])) }
        ELSE IF only_size THEN accepted
        ELSE UNION { HaveBasicInfoCase(s5, sl, all_input) : s5 \in accepted }
  IN  UNION { answer(a) : a \in SetSizeAnswers(s) }

\* What parse_headers' result does to the session.
ParseResult(s, sl, all_input, only_size, r) ==
  LET s1 == Log([s EXCEPT !.eng = r.eng],
                EngineCall("parse_headers", sl, all_input, r))
  IN  IF r.status = "Error" THEN { SetFailed(s1) }
      ELSE IF r.status = "NeedMoreInput" THEN { AddConsumed(s1, r) }
      ELSE UNION { ExtractMetadata(
                     AddConsumed(Log([s1 EXCEPT !.basic_info = bi],
                                     [fn |-> "get_basic_info", info |-> bi]), r),
                     sl, all_input, only_size) :
                   bi \in get_basic_info(r.eng) }

\* case DecoderState::kInitial.
InitialCase(s, sl, all_input, only_size) ==
  UNION { ParseResult(s, sl, all_input, only_size, r) :
            r \in parse_headers(s.eng, sl, all_input) }

\* Mutant: kHaveBasicInfo shares the case of kInitial.
SwitchCaseAlwaysParses(st) ==
  IF st \in {"kInitial", "kHaveBasicInfo"} THEN "kInitial" ELSE "return"

\* Mutant: kComplete shares the case of kHaveBasicInfo.
SwitchCaseCompleteDecodes(st) ==
  IF st = "kInitial" THEN st
  ELSE IF st \in {"kHaveBasicInfo", "kComplete"} THEN "kHaveBasicInfo"
  ELSE "return"

\* The case of the switch that runs for a state.
SwitchCase(st) ==
  IF st \in {"kInitial", "kHaveBasicInfo"} THEN st ELSE "return"

\* Decode(index, only_size) with `size` bytes accumulated (reader.size()) and
\* IsAllDataReceived() = all_input: the sessions the call may end in.
DecodeOutcomes(s0, index, only_size, size, all_input) ==
  IF EarlyReturn(s0, index, only_size) THEN {s0}
  ELSE LET s  == CreateDecoder(s0)
           sl == InputSlice(s, size)
       IN  IF Wrapped(s, size) THEN { [s EXCEPT !.crashed = TRUE] }
           ELSE IF sl.len = 0 THEN {s}
           ELSE IF SwitchCase(s.decoder_state) = "kInitial"
           THEN InitialCase(s, sl, all_input, only_size)
           ELSE IF SwitchCase(s.decoder_state) = "kHaveBasicInfo"
           THEN HaveBasicInfoCase(s, sl, all_input)
           ELSE {s}

\* What the latest call was and where it started.
\* `seq` alternates between 0 and 1, so that every call changes the record.
CallRecord(op, s) ==
  [op |-> op, seq |-> 1 - call.seq, pre_state |-> decoder_state,
   pre_failed |-> failed, pre_offset |-> input_offset, events |-> s.events]

NoCall ==
  [op |-> "none", seq |-> 0, pre_state |-> "kInitial", pre_failed |-> FALSE,
   pre_offset |-> 0, events |-> <<>>]

-----------------------------------------------------------------------------
(* The operations. *)

\* The bytes a session is delivered at most: the whole valid stream, or
\* MaxData bytes of an arbitrary stream.
DataLimit == IF eng.kind = "any" THEN MaxData ELSE HdrLen + BodyLen

\* The host appends k bytes and may say that these were the last.
SetData(k, all) ==
  /\ ~crashed
  /\ ~all_received
  /\ k > 0 \/ all
  /\ data_size + k <= DataLimit
  /\ data_size' = data_size + k
  /\ all_received' = all
  /\ UNCHANGED <<failed, size_available, embedded_profile,
                 frame_cache_size, frame_status, frame_bound, pixels_changed,
                 frame_pixels, decoder_present, decoder_state, basic_info,
                 have_metadata, is_high_bit_depth, input_offset, eng, crashed,
                 call, sig_window, sig_result>>

\* The host sizes the frame cache to DecodeFrameCount() frames and calls
\* InitializeNewFrame(0).
FrameCount ==
  /\ ~crashed
  /\ frame_cache_size = 0
  /\ frame_cache_size' = 1
  /\ UNCHANGED <<data_size, all_received, failed, size_available,
                 embedded_profile, frame_status,
                 frame_bound, pixels_changed, frame_pixels, decoder_present,
                 decoder_state, basic_info, have_metadata, is_high_bit_depth,
                 input_offset, eng, crashed, call, sig_window, sig_result>>

\* Decode(index, only_size).
DecodeCall(op, index, only_size) ==
  /\ ~crashed
  /\ \E s \in DecodeOutcomes(Cur, index, only_size, data_size, all_received) :
       /\ Commit(s)
       /\ call' = CallRecord(op, s)
  /\ UNCHANGED <<data_size, all_received, sig_window, sig_result>>

\* DecodeSize(): Decode(0, only_size = true).
DecodeSize == DecodeCall("DecodeSize", 0, TRUE)

\* Decode(index): Decode(index, false).
Decode(index) == DecodeCall("Decode", index, FALSE)

\* The session after construction, no engine created yet.
NewSession(kind) ==
  [ failed |-> FALSE, size_available |-> FALSE, embedded_profile |-> FALSE,
    frame_cache_size |-> 0, frame_status |-> "Incomplete",
    frame_bound |-> FALSE, pixels_changed |-> FALSE, frame_pixels |-> <<>>,
    decoder_present |-> FALSE, decoder_state |-> "kInitial",
    basic_info |-> EmptyBasicInfo, have_metadata |-> FALSE,
    is_high_bit_depth |-> FALSE, input_offset |-> 0, eng |-> NewEngine(kind),
    crashed |-> FALSE, events |-> <<>> ]

InitWith(kind) ==
  /\ data_size = 0
  /\ all_received = FALSE
  /\ call = NoCall
  /\ failed = NewSession(kind).failed
  /\ size_available = NewSession(kind).size_available
  /\ embedded_profile = NewSession(kind).embedded_profile
  /\ frame_cache_size = NewSession(kind).frame_cache_size
  /\ frame_status = NewSession(kind).frame_status
  /\ frame_bound = NewSession(kind).frame_bound
  /\ pixels_changed = NewSession(kind).pixels_changed
  /\ frame_pixels = NewSession(kind).frame_pixels
  /\ decoder_present = NewSession(kind).decoder_present
  /\ decoder_state = NewSession(kind).decoder_state
  /\ basic_info = NewSession(kind).basic_info
  /\ have_metadata = NewSession(kind).have_metadata
  /\ is_high_bit_depth = NewSession(kind).is_high_bit_depth
  /\ input_offset = NewSession(kind).input_offset
  /\ eng = NewSession(kind).eng
  /\ crashed = NewSession(kind).crashed
  /\ sig_result = [called |-> FALSE, value |-> FALSE]

Init == InitWith("any") /\ sig_window = <<>>

Next ==
  \/ \E k \in 0..MaxChunk, all \in BOOLEAN : SetData(k, all)
  \/ FrameCount
  \/ DecodeSize
  \/ \E index \in 0..MaxIndex : Decode(index)

\* The byte values of the readers handed to signature detection.
SigBytes == {255, 216}

\* The readers handed to signature detection.
Windows == UNION { [1..n -> SigBytes] : n \in 0..MaxWindow }

\* GetConsecutiveData(0, sizeof(buffer), buffer).
GetConsecutiveData(window, n) == SubSeq(window, 1, n)

MatchesJPEGSignatureUnchecked(window) == jpeg_rs_signature_check(window)

\* MatchesJPEGSignature(fast_reader).
MatchesJPEGSignature(window) ==
  IF Len(window) < SignatureLen THEN FALSE
  ELSE jpeg_rs_signature_check(GetConsecutiveData(window, SignatureLen))

\* The host asks whether the reader holds a JPEG. The function is static: it
\* reads its argument and no member of any session.
MatchesSignature ==
  /\ ~crashed
  /\ sig_result' = [called |-> TRUE, value |-> MatchesJPEGSignature(sig_window)]
  /\ UNCHANGED <<data_size, all_received, failed, size_available,
                 embedded_profile, frame_cache_size, frame_status,
                 frame_bound, pixels_changed, frame_pixels, decoder_present,
                 decoder_state, basic_info, have_metadata, is_high_bit_depth,
                 input_offset, eng, crashed, call, sig_window>>

\* A session fed the valid stream, next to a reader the host probes for the
\* signature between the calls.
InitSig == InitWith("valid") /\ sig_window \in Windows

NextSig == Next \/ MatchesSignature

SpecSig == InitSig /\ [][NextSig]_vars

\* A step that is a call of DecodeSize() or of Decode(index): the calls, and
\* no other operation, write the call record.
AnyDecodeStep == call' # call

DecodeSizeStep == AnyDecodeStep /\ call'.op = "DecodeSize"

DecodeStep == AnyDecodeStep /\ call'.op = "Decode"

\* A session over the bridge contract's engine.
Spec == Init /\ [][Next]_vars

\* A session fed the valid stream of HdrLen + BodyLen bytes.
InitValid == InitWith("valid") /\ sig_window = <<>>

SpecValid == InitValid /\ [][Next]_vars

\* A session fed the valid stream whose engine finishes at the end of the
\* input, with a caller that keeps asking for the frame.
InitBuffering == InitWith("buffering") /\ sig_window = <<>>

SpecBuffering == InitBuffering /\ [][Next]_vars /\ WF_vars(Decode(0))

-----------------------------------------------------------------------------
(* Reading the record of the latest call. *)

IsEngineCall(ev) == ev.fn \in {"parse_headers", "decode_image_with_stride"}

\* The engine calls among the events of a call, in order.
EngineCalls(evs) == SelectSeq(evs, IsEngineCall)

RECURSIVE SumConsumed(_)
\* The bytes_consumed of a sequence of engine calls, added up.
SumConsumed(calls) ==
  IF calls = <<>> THEN 0
  ELSE Head(calls).bytes_consumed + SumConsumed(Tail(calls))

IsNotError(ev) == ev.status # "Error"

LastEvent(evs) == evs[Len(evs)]

-----------------------------------------------------------------------------
(* C1: in every reachable state input_offset_ is at most the number of     *)
(* bytes delivered, every engine call reporting a bytes_consumed between 0 *)
(* and the bytes it was offered; the fused call included.                  *)
C1_OffsetWithinData == input_offset <= data_size

(* C2: no step of a session lowers input_offset_: after every Decode or    *)
(* DecodeSize call it is at least what it was before the call.             *)
C2_MonotonicOffset == [][input_offset' >= input_offset]_vars

C2_OffsetAdvanced ==
  /\ call.op # "none"
  /\ call.pre_offset > 0
  /\ input_offset > call.pre_offset

C4_EngineErrorEntersErrorState ==
  (/\ call.events # <<>>
   /\ IsEngineCall(LastEvent(call.events))
   /\ LastEvent(call.events).status = "Error")
  => (failed /\ decoder_state = "kError")

(* C5: once the failure signal is set it stays set, and every later Decode *)
(* or DecodeSize call does nothing: no engine call, no host call, and the  *)
(* state, the offset, the metadata and the frame buffer are as before.     *)
C5_TerminalAbsorption ==
  [][failed =>
       /\ failed'
       /\ AnyDecodeStep =>
            /\ call'.events = <<>>
            /\ UNCHANGED <<decoder_state, input_offset, have_metadata,
                           basic_info, size_available, frame_cache_size,
                           frame_status, frame_bound, frame_pixels,
                           pixels_changed, eng, crashed>>]_vars

\* A call was made on a failed session that still had unconsumed input.
C5_CalledAfterFailure ==
  /\ call.op # "none"
  /\ call.pre_failed
  /\ failed
  /\ data_size > input_offset

IsPixelDecode(ev) == ev.fn = "decode_image_with_stride"

IsParseHeaders(ev) == ev.fn = "parse_headers"

IsFrameBinding(ev) == ev.fn = "InitFrameBuffer"

\* The host rejected the size the headers reported.
SizeRejected(evs) ==
  /\ evs # <<>>
  /\ LastEvent(evs).fn = "SetSize"
  /\ ~LastEvent(evs).ok

\* The host supplied no pixel memory: InitFrameBuffer failed or the pixel
\* pointer was null.
MemoryRefused(evs) ==
  \E i \in 1..Len(evs) : IsFrameBinding(evs[i]) /\ evs[i].answer # "ok"

(* C6: when parse_headers succeeds and the host's SetSize rejects the      *)
(* reported size, the call ends with the failure signal set and            *)
(* have_metadata_ false.                                                   *)
C6_SizeRejectionFails ==
  SizeRejected(call.events) => (failed /\ ~have_metadata)

(* C7: in state kComplete a Decode or DecodeSize call, with or without new *)
(* bytes, makes no engine call and leaves the pixel buffer, the frame      *)
(* status, input_offset_ and the state as they were.                       *)
C7_IdempotentCompletion ==
  [][(decoder_state = "kComplete" /\ AnyDecodeStep) =>
       /\ call'.events = <<>>
       /\ UNCHANGED <<frame_pixels, pixels_changed, frame_status, frame_bound,
                      input_offset, decoder_state>>]_vars

\* A full-decode call was made in kComplete with unconsumed bytes at hand.
C7_CalledWhenComplete ==
  /\ call.op = "Decode"
  /\ call.pre_state = "kComplete"
  /\ data_size > input_offset

(* C8: a DecodeSize call, in any state, allocates and binds no frame       *)
(* buffer, makes no pixel-decode call, writes no pixel, and leaves the     *)
(* state where it was or at kHaveBasicInfo.                                *)
C8_SizeOnlyNonMutation ==
  [][DecodeSizeStep =>
       /\ UNCHANGED <<frame_cache_size, frame_bound, frame_pixels,
                      pixels_changed, frame_status>>
       /\ SelectSeq(call'.events, IsPixelDecode) = <<>>
       /\ SelectSeq(call'.events, IsFrameBinding) = <<>>
       /\ decoder_state' \in {decoder_state, "kHaveBasicInfo"}]_vars

\* A size-only request was made in kHaveBasicInfo with all the data
\* delivered and bytes left to decode.
C8_SizeOnlyWithDataAtHand ==
  /\ call.op = "DecodeSize"
  /\ call.pre_state = "kHaveBasicInfo"
  /\ ~call.pre_failed
  /\ all_received
  /\ data_size > input_offset

(* C10, as stated: when the host supplies no pixel memory the call sets    *)
(* the failure signal, makes no pixel-decode call and leaves input_offset_ *)
(* and the frame status as they were when the call began.                  *)
C10_NoMemoryLeavesOffset ==
  MemoryRefused(call.events) =>
    /\ failed
    /\ SelectSeq(call.events, IsPixelDecode) = <<>>
    /\ input_offset = call.pre_offset
    /\ frame_status = "Incomplete"

(* C10, amended: when the host supplies no pixel memory the call sets the  *)
(* failure signal, makes no pixel-decode call and leaves the frame status  *)
(* and the pixels as they were; input_offset_ has grown by the             *)
(* bytes_consumed of the header parse when one ran earlier in the same     *)
(* call, and is unchanged otherwise.                                       *)
C10_NoMemoryFailsBeforeDecode ==
  [][(AnyDecodeStep /\ MemoryRefused(call'.events)) =>
       /\ failed'
       /\ SelectSeq(call'.events, IsPixelDecode) = <<>>
       /\ UNCHANGED <<frame_status, frame_pixels, pixels_changed>>
       /\ input_offset' =
            input_offset
              + SumConsumed(SelectSeq(call'.events, IsParseHeaders))]_vars

\* The pixel pointer was null in a call that had parsed the headers first.
C10_NullPixelsInFusedCall ==
  /\ MemoryRefused(call.events)
  /\ IsFrameBinding(LastEvent(call.events))
  /\ LastEvent(call.events).answer = "null_pixels"
  /\ call.pre_state = "kInitial"
  /\ input_offset > call.pre_offset

\* The sessions that one Decode(0) call on a new session ends in when the
\* whole valid stream has been delivered before it.
OneCallOutcomes ==
  UNION { DecodeOutcomes(NewSession("valid"), 0, FALSE, HdrLen + BodyLen, all) :
            all \in BOOLEAN }

(* C9: however the valid stream was split over the calls, a session that   *)
(* has reached kComplete holds the metadata and the pixels (the bytes the  *)
(* pixel decode took, in order) of a session that was given the whole      *)
(* stream and decoded it in one call.                                      *)
C9_ChunkingInvariance ==
  decoder_state = "kComplete" =>
    \E o \in OneCallOutcomes :
      /\ o.decoder_state = "kComplete"
      /\ o.basic_info = basic_info
      /\ o.frame_pixels = frame_pixels

(* C11: MatchesJPEGSignature returns false for a reader of fewer than 4    *)
(* bytes and otherwise what the engine's signature predicate says of the   *)
(* first 4 bytes; a call of it, whenever made, leaves the state of the     *)
(* session, input_offset_, the metadata and the engine as they were.       *)
C11_SignatureDetection ==
  /\ [](sig_result.called =>
          sig_result.value =
            IF Len(sig_window) < 4 THEN FALSE
            ELSE jpeg_rs_signature_check(SubSeq(sig_window, 1, 4)))
  /\ [][sig_result' # sig_result =>
          UNCHANGED <<decoder_present, decoder_state, input_offset,
                      have_metadata, basic_info, is_high_bit_depth, eng,
                      failed, size_available, frame_status, frame_pixels>>]_vars

C11_ShortReaderInMidSession ==
  /\ sig_result.called
  /\ sig_result.value = FALSE
  /\ Len(sig_window) = 3
  /\ jpeg_rs_signature_check(sig_window)
  /\ decoder_state = "kHaveBasicInfo"
  /\ input_offset > 0

(* C12: every engine call, parse_headers or decode_image_with_stride, is   *)
(* offered the bytes from the input_offset_ of that moment to the end of   *)
(* the delivered data: it starts where the bytes consumed so far end, the  *)
(* pixel decode of the call that parsed the headers included.              *)
C12_OfferedUnconsumedSuffix ==
  LET calls == EngineCalls(call.events) IN
  \A i \in 1..Len(calls) :
    /\ calls[i].from = call.pre_offset + SumConsumed(SubSeq(calls, 1, i - 1))
    /\ calls[i].from + calls[i].len = data_size

\* The statuses the engine calls of a call returned, in order.
StatusOf(evs, fn) ==
  LET calls == EngineCalls(evs)
  IN  { calls[i].status : i \in { j \in 1..Len(calls) : calls[j].fn = fn } }

(* C13: decoder_state_ moves only forward along kInitial, kHaveBasicInfo,  *)
(* kComplete, one state per call, except that a Decode call in kInitial    *)
(* ends in kComplete when parse_headers and decode_image_with_stride both  *)
(* return Success in it; an engine call that returns NeedMoreInput leaves  *)
(* the state the one it was called in.                                     *)
C13_ForwardOnly ==
  [][LET calls == EngineCalls(call'.events) IN
     /\ \/ decoder_state' = decoder_state
        \/ decoder_state = "kInitial" /\ decoder_state' = "kHaveBasicInfo"
        \/ decoder_state = "kHaveBasicInfo" /\ decoder_state' = "kComplete"
        \/ /\ decoder_state = "kInitial" /\ decoder_state' = "kComplete"
           /\ DecodeStep
           /\ StatusOf(call'.events, "parse_headers") = {"Success"}
           /\ StatusOf(call'.events, "decode_image_with_stride") = {"Success"}
     /\ AnyDecodeStep /\ calls # <<>>
          /\ LastEvent(calls).status = "NeedMoreInput"
        => decoder_state' = IF LastEvent(calls).fn = "parse_headers"
                            THEN decoder_state ELSE "kHaveBasicInfo"]_vars

C13_InitialToCompleteInOneCall ==
  /\ call.op = "Decode"
  /\ call.pre_state = "kInitial"
  /\ decoder_state = "kComplete"

(* C14: have_metadata_ goes from false to true at most once and never     *)
(* back, and basic_info_ is written at most once in a session: once it    *)
(* holds the engine's answer it does not change, whatever the host        *)
(* answers to SetSize.                                                     *)
C14_MetadataOnce ==
  [][/\ have_metadata => have_metadata'
     /\ basic_info # EmptyBasicInfo =>
          /\ basic_info' = basic_info
          /\ AnyDecodeStep => ~\E i \in 1..Len(call'.events) :
                                  call'.events[i].fn = "get_basic_info"]_vars

\* The positions of the calls of fn among the events of a call.
CallsOf(evs, fn) == { i \in 1..Len(evs) : evs[i].fn = fn }

\* parse_headers returned Success before position i of the events.
ParsedBefore(evs, i) ==
  \E j \in 1..(i - 1) :
    evs[j].fn = "parse_headers" /\ evs[j].status = "Success"

(* C15: get_basic_info, set_pixel_format and get_icc_profile are called    *)
(* only in a call in which parse_headers has returned Success before them; *)
(* decode_image_with_stride is called only by a full decode, with          *)
(* have_metadata_ true and the pixel format set; parse_headers is called   *)
(* only by a call that found the state kInitial, as its first engine call. *)
C15_EngineCallOrder ==
  LET evs == call.events IN
  /\ \A i \in CallsOf(evs, "get_basic_info") \cup CallsOf(evs, "set_pixel_format")
               \cup CallsOf(evs, "get_icc_profile") : ParsedBefore(evs, i)
  /\ \A i \in CallsOf(evs, "decode_image_with_stride") :
       /\ call.op = "Decode"
       /\ have_metadata
       /\ eng.fmt = "Bgra8"
       /\ \/ call.pre_state = "kHaveBasicInfo"
          \/ \E j \in CallsOf(evs, "set_pixel_format") : j < i
  /\ \A i \in CallsOf(evs, "parse_headers") :
       call.pre_state = "kInitial" /\ i = 1
  /\ decoder_state \in {"kHaveBasicInfo", "kComplete"} =>
       have_metadata /\ eng.fmt = "Bgra8"

C15_AllEngineOperationsInOneCall ==
  /\ CallsOf(call.events, "get_icc_profile") # {}
  /\ CallsOf(call.events, "decode_image_with_stride") # {}
  /\ CallsOf(call.events, "parse_headers") # {}

\* The latest call ended with decode_image_with_stride returning st.
PixelDecodeReturned(st) ==
  /\ call.events # <<>>
  /\ LastEvent(call.events).fn = "decode_image_with_stride"
  /\ LastEvent(call.events).status = st

(* C16: the frame's status is kFrameComplete exactly when decoder_state_   *)
(* is kComplete. A pixel decode that returned NeedMoreInput has marked the *)
(* pixels changed and left the frame incomplete and the state              *)
(* kHaveBasicInfo; one that returned Success has marked the pixels         *)
(* changed, the frame complete and the state kComplete; nothing else       *)
(* changes the frame's status.                                             *)
C16_FrameCompleteIffStateComplete ==
  /\ [](/\ frame_status = "Complete" <=> decoder_state = "kComplete"
        /\ PixelDecodeReturned("NeedMoreInput") =>
             /\ pixels_changed
             /\ frame_status = "Incomplete"
             /\ decoder_state = "kHaveBasicInfo"
        /\ PixelDecodeReturned("Success") =>
             /\ pixels_changed
             /\ frame_status = "Complete"
             /\ decoder_state = "kComplete")
  /\ [][frame_status' # frame_status =>
          AnyDecodeStep /\ PixelDecodeReturned("Success")']_vars

C16_PartialThenComplete ==
  /\ PixelDecodeReturned("Success")
  /\ call.pre_state = "kHaveBasicInfo"
  /\ call.pre_offset > 0
  /\ frame_status = "Complete"

(* C17: the engine is created by the first Decode or DecodeSize call of a  *)
(* session and by no other step; once it exists it stays, and no later     *)
(* call replaces it by a new engine or sets input_offset_ back to 0 or     *)
(* decoder_state_ back to kInitial.                                        *)
C17_EngineCreatedOnce ==
  /\ [](decoder_present <=> call.op # "none")
  /\ [][decoder_present =>
          /\ decoder_present'
          /\ input_offset > 0 => input_offset' > 0
          /\ decoder_state # "kInitial" => decoder_state' # "kInitial"
          /\ eng # NewEngine(eng.kind) => eng' # NewEngine(eng.kind)]_vars

C17_LaterCallKeepsEngine ==
  /\ decoder_present
  /\ call.pre_offset > 0
  /\ call.pre_state = "kHaveBasicInfo"
  /\ eng # NewEngine(eng.kind)

\* The whole valid stream is delivered and the host has said so.
StreamComplete == all_received /\ data_size = HdrLen + BodyLen

(* C18: once the whole stream of a valid image is delivered and flagged   *)
(* as all data received, a caller that keeps calling Decode(0) sees the   *)
(* session reach kComplete or fail; also when the engine had taken every  *)
(* delivered byte with NeedMoreInput before the flag was raised.          *)
C18_EventuallyCompleteOrFailed ==
  StreamComplete ~> (decoder_state = "kComplete" \/ failed \/ crashed)

(* C19: have_metadata_ is true exactly when decoder_state_ is             *)
(* kHaveBasicInfo or kComplete, and decoder_state_ is never kDecoding or   *)
(* kError.                                                                 *)
C19_MetadataIffPastHeaders ==
  /\ have_metadata <=> decoder_state \in {"kHaveBasicInfo", "kComplete"}
  /\ decoder_state \notin {"kDecoding", "kError"}

C19_FailedWithMetadata ==
  /\ failed
  /\ have_metadata
  /\ decoder_state = "kHaveBasicInfo"
  /\ call.events # <<>>
  /\ LastEvent(call.events).fn = "decode_image_with_stride"
  /\ LastEvent(call.events).status = "Error"

(* C20: parse_headers is not called again in a session after it has once   *)
(* returned Success, whatever calls follow and whatever the host answers,  *)
(* a rejected size included. basic_info_ holds an engine's answer exactly  *)
(* when parse_headers has returned Success before.                         *)
C20_NoParseAfterSuccess ==
  [][basic_info # EmptyBasicInfo /\ AnyDecodeStep
       => CallsOf(call'.events, "parse_headers") = {}]_vars

=============================================================================
